---- MODULE Spec2Model ----
(***************************************************************************)
(* StoreDuplicator: the Migrator class (src/src/migrator.js) and the CLI   *)
(* entry script (src/unnamed/part_000) that runs its drivers.              *)
(*                                                                         *)
(* The program is a set of async functions run by one JavaScript event     *)
(* loop.  A coroutine is modelled by a frame: the store call it awaits     *)
(* (pc), its local variables and the log of the calls it has issued.  One  *)
(* action is the arrival of the awaited call's response followed by the    *)
(* code that runs up to the next await, where the next call is issued.     *)
(* Two coroutines exist: the entry script with the driver it awaits        *)
(* ("main"), and the per-blog iteration that migrateArticles starts and    *)
(* does not await ("task").                                                *)
(***************************************************************************)
EXTENDS Integers, Sequences, FiniteSets, TLC

VARIABLES
  src,       \* records of the source store (the same handles for every kind)
  dst,       \* records of the destination store before the run
  fr,        \* fr.main, fr.task: the two coroutines' frames
  failures,  \* store calls that have failed so far
  hi,        \* highest rank (in Order) of a type that has issued a store call
  last       \* the type on whose behalf the latest store call was issued

vars == <<src, dst, fr, failures, hi, last>>

----------------------------------------------------------------------------
(* Bounds of the model *)

\* records per list page; stands for `limit: 250` / `first: 250`
Limit == 2
\* most destination records of one kind
MaxDst == 3
\* most source records of one kind
MaxSrc == 3
\* most store calls that fail in one run
MaxFailures == 2
\* most source / destination records of one kind when the whole script runs
MaxAll == 1

----------------------------------------------------------------------------
(* Values *)

Null == "null"

\* the fixed order of the entry script
Order == <<"page", "file", "blog", "article", "product", "smart", "custom",
           "metafield", "menu">>

Kinds == {Order[n] : n \in 1..Len(Order)}

Rank(kind) == CHOOSE n \in 1..Len(Order) : Order[n] = kind

Handles == <<"k1", "k2", "k3", "k4">>

\* the created_at of the source records
Stamps == <<"t1", "t2", "t3", "t4">>

Max(a, b) == IF a >= b THEN a ELSE b

Last(s) == s[Len(s)]

\* String.prototype.indexOf on a string held as its sequence of tokens:
\* the position of the first occurrence, -1 when there is none
IndexOf(text, token) ==
  IF \E n \in 1..Len(text) : text[n] = token
  THEN (CHOOSE n \in 1..Len(text) :
          text[n] = token /\ \A m \in 1..(n - 1) : text[m] # token) - 1
  ELSE -1

----------------------------------------------------------------------------
(* Store contents.  A record stands for the entity of whatever kind the    *)
(* driver at hand lists: its handle is `key`; as a shop metafield its      *)
(* natural key is (namespace, key); as a file its URL is `url` or `image`. *)

\* a string value, held as its sequence of tokens
Text(tokens) == [type |-> "string", text |-> tokens]

\* a number value (of an integer metafield, say), held as the tokens of its
\* decimal notation
Number(tokens) == [type |-> "number", text |-> tokens]

Metafield(id, namespace, value) ==
  [id |-> id, namespace |-> namespace, key |-> "f", value |-> value]

SourceRecord(n) ==
  [id |-> n,
   key |-> Handles[n],
   namespace |-> IF n = 1 THEN <<"app--", "x">> ELSE <<"custom">>,
   typename |-> IF n = 1 THEN "GenericFile" ELSE "MediaImage",
   url |-> IF n = 1 THEN Handles[n] ELSE Null,
   image |-> IF n \in {1, 2} THEN Null ELSE Handles[n],
   created_at |-> Stamps[n],
   metafields |-> IF n = 1
                  THEN <<Metafield(11, <<"app--", "x">>, Text(<<"5">>)),
                         Metafield(12, <<"custom">>, Text(<<"red">>))>>
                  ELSE IF n = 2
                  THEN <<Metafield(21, <<"custom">>, Text(<<"gid://shopify/", "7">>))>>
                  ELSE <<Metafield(22, <<"custom">>, Number(<<"7">>))>>,
   variants |-> <<[id |-> 41, title |-> "A"], [id |-> 42, title |-> "B"]>>,
   images |-> IF n = 1
              THEN <<[id |-> 31, variant_ids |-> <<42>>],
                     [id |-> 32, variant_ids |-> <<41, 42>>]>>
              ELSE <<>>,
   members |-> <<1, 2>>]

\* a destination record of `kind` with the handle Handles[n], listed at place `at`
DestinationId(kind, at) == 100 * Rank(kind) + at

\* the sequences over 1..n without repetition, of length at most `most`
Arrangements(n, most) ==
  {s \in UNION {[1..len -> 1..n] : len \in 0..most} :
     \A a, b \in 1..Len(s) : a # b => s[a] # s[b]}

SourceChoices(most) == {[n \in 1..len |-> SourceRecord(n)] : len \in 0..most}

\* `of` is the kind of an entity that a run has created, "any" for a record
\* that was there before: that one stands for the entity of whatever kind is
\* listed, and `newId` for the id that the create call returned
DestinationChoices(most) ==
  {[at \in 1..Len(s) |-> [place |-> at, key |-> Handles[s[at]],
                         namespace |-> SourceRecord(s[at]).namespace,
                         of |-> "any", newId |-> 0]] :
     s \in Arrangements(most, most)}

Min(a, b) == IF a <= b THEN a ELSE b

\* one page of a listing, and whether the response names a next page
\* (nextPageParameters, pageInfo.hasNextPage)
Page(all, p) == SubSeq(all, (p - 1) * Limit + 1, Min(p * Limit, Len(all)))

HasNext(all, p) == p * Limit < Len(all)

\* what the source and the destination hold of one kind
SourceRecords(kind) == src

\* A collection is a smart or a custom collection, and a handle names one
\* collection of the store: of the collections that were there before the
\* run, the one with the first handle is a smart collection, the others are
\* custom collections.
Holds(d, kind) ==
  IF d.of # "any" THEN d.of = kind
  ELSE /\ kind = "smart" => d.key = Handles[1]
       /\ kind = "custom" => d.key # Handles[1]

DestinationRecords(kind) ==
  LET held == SelectSeq(dst, LAMBDA d : Holds(d, kind))
  IN [at \in 1..Len(held) |->
        [id |-> IF held[at].newId # 0 THEN held[at].newId
                ELSE DestinationId(kind, held[at].place),
         key |-> held[at].key,
         namespace |-> held[at].namespace,
         typename |-> "GenericFile",
         url |-> held[at].key,
         image |-> Null]]

----------------------------------------------------------------------------
(* Frames and calls *)

EmptyIndex == [k \in {} |-> 0]

\* an async function that has not been called
Idle ==
  [pc |-> "idle", caller |-> Null, kind |-> Null, del |-> FALSE, skip |-> TRUE,
   save |-> FALSE,
   index |-> EmptyIndex, found |-> <<>>, page |-> 1, acc |-> <<>>,
   items |-> <<>>, i |-> 0, mfs |-> <<>>, mp |-> 1, j |-> 0, newId |-> 0,
   sprods |-> <<>>, dprods |-> <<>>, pmap |-> EmptyIndex, members |-> <<>>,
   blogs |-> <<>>, dblogs |-> <<>>, b |-> 0, dblog |-> 0, unrun |-> "none",
   thrown |-> Null, seen |-> <<>>, log |-> <<>>]

\* a call on a store client: `out` is "pending" until the response arrives
Call(store, op, res, rec, arg) ==
  [store |-> store, op |-> op, res |-> res, rec |-> rec, arg |-> arg,
   blog |-> 0, out |-> "pending"]

\* the frame awaits call c from now on
Issue(f, pc, c) == [f EXCEPT !.pc = pc, !.log = Append(@, [c EXCEPT !.blog = f.b])]

\* the awaited call (the frame's latest) has come back with outcome o
Settle(f, o) == [f EXCEPT !.log[Len(f.log)].out = o]

Reject(f) == [f EXCEPT !.pc = "rejected"]

Terminal == {"idle", "resolved", "rejected", "end", "exit"}

Awaiting(f) == f.pc \notin Terminal

\* the drivers that list through GraphQL
IsGraphql(kind) == kind \in {"file", "menu"}

\* the source record at hand
Item(f) == f.items[f.i]

\* the id a create call returns for the copy of source record r
NewId(r) == 1000 + r.id

\* newProduct.variants: the variants of the created product carry the titles
\* sent and ids of the destination
NewVariants(r) ==
  [k \in 1..Len(r.variants) |-> [id |-> 60 + r.variants[k].id,
                                 title |-> r.variants[k].title]]

----------------------------------------------------------------------------
(* Natural keys and the identity index *)

FileUrl(file) ==
  IF file.typename = "GenericFile" THEN file.url
  ELSE IF file.typename = "MediaImage" /\ file.image # Null THEN file.image
  ELSE Null

\* a node of the destination files query, which does not select __typename
DestinationFileNode(d) == [d EXCEPT !.typename = Null]

NaturalKey(kind, r) ==
  IF kind = "metafield" THEN <<r.namespace, r.key>>
  ELSE IF kind = "file" THEN FileUrl(r)
  ELSE r.key

\* destinationX[handle] = id for every record of one page, later ones winning
RECURSIVE IndexPage(_, _, _)
IndexPage(index, kind, records) ==
  IF records = <<>> THEN index
  ELSE LET d == Head(records)
           node == IF kind = "file" THEN DestinationFileNode(d) ELSE d
           key == NaturalKey(kind, node)
       IN IndexPage(IF kind = "file" /\ key = Null THEN index
                    ELSE (key :> d.id) @@ index,
                    kind, Tail(records))

\* the id of the destination entity the index holds for source record r,
\* 0 when it holds none
IndexedId(f, r) ==
  LET key == NaturalKey(f.kind, r)
  IN IF f.kind = "metafield"
     THEN LET hits == SelectSeq(f.found, LAMBDA d : NaturalKey("metafield", d) = key)
          IN IF hits = <<>> THEN 0 ELSE hits[1].id
     ELSE IF key \in DOMAIN f.index THEN f.index[key] ELSE 0

Existing(f) == IndexedId(f, Item(f))

----------------------------------------------------------------------------
(* Creation payloads *)

OwnerResource(kind) ==
  CASE kind = "smart" -> "smart_collection"
    [] kind = "custom" -> "custom_collection"
    [] OTHER -> kind

\* delete metafield.id; owner_resource and owner_id rebound to the new entity
Rehomed(m, kind, newId) ==
  [namespace |-> m.namespace, key |-> m.key, value |-> m.value,
   owner_resource |-> OwnerResource(kind), owner_id |-> newId]

\* m.namespace.indexOf('app--') !== 0
NotAppOwned(m) == IndexOf(m.namespace, "app--") # 0

\* v && v.value && v.value.indexOf && v.value.indexOf('gid://shopify/') === -1
Portable(m) ==
  /\ m.value.type = "string"
  /\ m.value.text # <<>>
  /\ IndexOf(m.value.text, "gid://shopify/") = -1

\* product.metafields of the creation payload
ProductMetafields(listed) ==
  SelectSeq(SelectSeq(SelectSeq(listed, NotAppOwned), Portable), NotAppOwned)

\* productMap[sourceProduct.id] = p.id for every destination product whose
\* handle a source product has
RECURSIVE ProductMap(_, _)
ProductMap(sprods, dprods) ==
  IF dprods = <<>> THEN EmptyIndex
  ELSE LET d == Last(dprods)
           earlier == ProductMap(sprods, SubSeq(dprods, 1, Len(dprods) - 1))
           same == SelectSeq(sprods, LAMBDA s : s.key = d.key)
       IN IF same = <<>> THEN earlier ELSE (same[1].id :> d.id) @@ earlier

\* variant: collects without `.filter(p => p)`
CollectsUnfiltered(members, pmap) ==
  [n \in 1..Len(members) |->
     [product_id |-> IF members[n] \in DOMAIN pmap THEN pmap[members[n]] ELSE 0]]

\* collection.collects of the creation payload
Collects(members, pmap) ==
  LET mapped == [n \in 1..Len(members) |->
                   IF members[n] \in DOMAIN pmap /\ pmap[members[n]] # 0
                   THEN pmap[members[n]] ELSE 0]
      kept == SelectSeq(mapped, LAMBDA id : id # 0)
  IN [n \in 1..Len(kept) |-> [product_id |-> kept[n]]]

\* delete record.field
Without(record, field) == [k \in DOMAIN record \ {field} |-> record[k]]

\* record.field, undefined (Null) when the record has no such property
Get(record, field) == IF field \in DOMAIN record THEN record[field] ELSE Null

\* delete article.created_at; article.published_at = article.created_at
PublishedAt(article) == Get(Without(article, "created_at"), "created_at")

\* the payload of the create call for the record at hand
Payload(f) ==
  LET r == Item(f)
  IN CASE f.kind = "product" ->
            [handle |-> r.key, metafields |-> ProductMetafields(f.mfs)]
       [] f.kind = "custom" ->
            [handle |-> r.key, collects |-> Collects(f.members, f.pmap)]
       [] f.kind = "article" ->
            [handle |-> r.key, published_at |-> PublishedAt(r), blog_id |-> f.dblog]
       [] f.kind = "metafield" ->
            \* owner_id and owner_resource deleted, the rest sent as listed
            [id |-> r.id, namespace |-> r.namespace, key |-> r.key]
       [] f.kind = "file" ->
            [originalSource |-> FileUrl(r)]
       [] OTHER -> [handle |-> r.key]

----------------------------------------------------------------------------
(* The drivers: the code between two awaits *)

IssueDestinationList(f, p) ==
  Issue([f EXCEPT !.page = p], "dstList", Call("dst", "list", f.kind, 0, p))

IssueSourceList(f, p) ==
  Issue([f EXCEPT !.page = p], "srcList", Call("src", "list", f.kind, 0, p))

CreateCall(f) == Call("dst", "create", f.kind, Item(f).id, Payload(f))

\* variant: the delete sent to the client of the source store
DeleteCallOnSource(f) == Call("src", "delete", f.kind, Item(f).id, Existing(f))

DeleteCall(f) == Call("dst", "delete", f.kind, Item(f).id, Existing(f))

\* variant: the smart-collection callback without its try/catch
CaughtExceptSmart(kind) == kind \in {"product", "custom", "metafield"}

\* variant: the page callback with a try/catch around its transform
CaughtAlsoPage(kind) == kind \in {"page", "product", "smart", "custom", "metafield"}

\* variant: the shop-metafield callback without its try/catch
CaughtExceptMetafield(kind) == kind \in {"product", "smart", "custom"}

\* the drivers whose per-item callback wraps the transform in try/catch
Caught(kind) == kind \in {"product", "smart", "custom", "metafield"}

\* _migrateX(record) up to its first await
Transform(f) ==
  IF f.kind \in {"metafield", "menu", "file"}
  THEN Issue(f, "create", CreateCall(f))
  ELSE Issue([f EXCEPT !.mfs = <<>>, !.mp = 1, !.members = <<>>], "getMf",
             Call("src", "list", "metafield", Item(f).id, 1))

\* variant: an iteration that takes the first blog up once more after the last
NextBlogRevisiting(f) ==
  LET walks == SelectSeq(f.log, LAMBDA c : c.blog = 1 /\ c.store = "dst"
                                            /\ c.op = "list" /\ c.arg = 1)
      again == f.b = Len(f.blogs) /\ f.b > 1 /\ Len(walks) = 1
  IN IF f.b < Len(f.blogs) \/ again
     THEN LET at == IF again THEN 1 ELSE f.b + 1
              blog == f.blogs[at]
              destinationBlog == SelectSeq(f.dblogs, LAMBDA d : d.key = blog.key)[1]
          IN IssueDestinationList([f EXCEPT !.b = at, !.dblog = destinationBlog.id,
                                            !.index = EmptyIndex], 1)
     ELSE [f EXCEPT !.pc = "resolved"]

\* the next blog of the un-awaited iteration over the matching blogs
NextBlog(f) ==
  IF f.b < Len(f.blogs)
  THEN LET blog == f.blogs[f.b + 1]
           destinationBlog == SelectSeq(f.dblogs, LAMBDA d : d.key = blog.key)[1]
       IN IssueDestinationList([f EXCEPT !.b = @ + 1, !.dblog = destinationBlog.id,
                                         !.index = EmptyIndex], 1)
  ELSE [f EXCEPT !.pc = "resolved"]

\* the driver's loops are over
Done(f) == IF f.kind = "article" THEN NextBlog(f) ELSE [f EXCEPT !.pc = "resolved"]

RECURSIVE NextItem(_)

\* variant: the skip test without its !deleteFirst operand
SkipWhenExisting(f) ==
  IF Existing(f) # 0 /\ f.skip THEN NextItem(f) ELSE Transform(f)

\* the directory under data/ that the per-item callback of a driver writes to
DataDirectory(kind) ==
  CASE kind = "page" -> "pages"
    [] kind = "file" -> "files"
    [] kind = "blog" -> "blogs"
    [] kind = "article" -> "articles"
    [] kind = "product" -> "products"
    [] kind \in {"smart", "custom"} -> "collections"
    [] kind = "metafield" -> "metafields"
    [] kind = "menu" -> "menus"

\* the directories that the constructor makes when saveData is set
MadeDirectories ==
  {"products", "pages", "metafields", "collections", "articles", "blogs", "files"}

\* this.saveData && fs.writeFileSync(`data/<type>/<id>.json`, ...) throws
\* (ENOENT) when the directory is not there
WriteThrows(f) == f.save /\ DataDirectory(f.kind) \notin MadeDirectories

\* if (existing && skipExisting && !deleteFirst) return; await this._migrateX(record)
\* (the product callback writes the record inside its try, before the transform)
SkipOrMigrate(f) ==
  IF Existing(f) # 0 /\ f.skip /\ ~f.del THEN NextItem(f)
  ELSE IF f.kind = "product" /\ WriteThrows(f)
  THEN NextItem([f EXCEPT !.thrown = "ENOENT"])
  ELSE Transform(f)

\* the branch the per-item callback takes for the record at hand
Action(f) ==
  IF f.kind = "file" /\ FileUrl(Item(f)) = Null THEN "NOURL"
  ELSE IF Existing(f) # 0 /\ f.del THEN "REPLACE"
  ELSE IF Existing(f) # 0 /\ f.skip /\ ~f.del THEN "SKIP"
  ELSE "CREATE"

\* variant: a callback without the `if (!fileUrl) return` of the file driver
DecideWithoutUrlTest(f) ==
  LET g == [f EXCEPT !.seen = Append(@, [blog |-> f.b, rec |-> Item(f).id,
                                         action |-> Action(f)])]
  IN IF Existing(f) # 0 /\ f.del THEN Issue(g, "delete", DeleteCall(g))
     ELSE SkipOrMigrate(g)

\* the per-item callback up to its first await: the record is written to
\* disk when saveData is set; `seen` notes the record and the branch taken
Decide(f) ==
  LET g == [f EXCEPT !.seen = Append(@, [blog |-> f.b, rec |-> Item(f).id,
                                         action |-> Action(f)])]
  IN IF f.kind # "product" /\ WriteThrows(f)
     THEN Reject([g EXCEPT !.thrown = "ENOENT"])
     ELSE IF f.kind = "file" /\ FileUrl(Item(f)) = Null THEN NextItem(g)
     ELSE IF Existing(f) # 0 /\ f.del THEN Issue(g, "delete", DeleteCall(g))
     ELSE SkipOrMigrate(g)

\* asyncForEach moves on; after the page's last record the do/while lists the
\* next source page (the menu driver and the shop-metafield driver walk one list)
NextItem(f) ==
  IF f.i < Len(f.items) THEN Decide([f EXCEPT !.i = @ + 1])
  ELSE IF f.kind \notin {"metafield", "menu"}
          /\ HasNext(SourceRecords(f.kind), f.page)
  THEN IssueSourceList(f, f.page + 1)
  ELSE Done(f)

\* an error thrown inside the transform of the record at hand
ItemFail(f) == IF Caught(f.kind) THEN NextItem(f) ELSE Reject(f)

NextMetafield(f) ==
  IF f.j < Len(f.mfs)
  THEN Issue([f EXCEPT !.j = @ + 1], "mfCreate",
             Call("dst", "create", "metafield", Item(f).id,
                  Rehomed(f.mfs[f.j + 1], f.kind, f.newId)))
  ELSE NextItem(f)

\* variant: image.variant_ids sent as read from the source
SourceVariantId(oldId, variants, newVariants) == oldId

\* oldVariant = product.variants.find(v => v.id === oldId);
\* newVariant = newProduct.variants.find(v => v.title === oldVariant.title)
NewVariantId(oldId, variants, newVariants) ==
  LET oldVariant == SelectSeq(variants, LAMBDA v : v.id = oldId)[1]
      newVariant == SelectSeq(newVariants, LAMBDA v : v.title = oldVariant.title)[1]
  IN newVariant.id

\* an image of the product at hand as sent: product_id and variant_ids rebound
NewImage(f, image) ==
  [id |-> image.id,
   product_id |-> f.newId,
   variant_ids |-> [k \in 1..Len(image.variant_ids) |->
                      NewVariantId(image.variant_ids[k], Item(f).variants,
                                   NewVariants(Item(f)))]]

ImageCall(f) ==
  Call("dst", "create", "productImage", Item(f).id, NewImage(f, Item(f).images[f.j]))

NextImage(f) ==
  IF f.j < Len(Item(f).images)
  THEN LET g == [f EXCEPT !.j = @ + 1] IN Issue(g, "imgCreate", ImageCall(g))
  ELSE NextItem(f)

----------------------------------------------------------------------------
(* The response of the awaited call arrives *)

\* what a call can come back with: "fail" is a rejected promise (or, for a
\* mutation, a response without data); "errors" a GraphQL response that carries
\* errors and no data; "userErrors" a mutation response with userErrors
Outcomes(f) ==
  IF f.pc \in {"testSrc", "testDst"} THEN {"ok", "fail", "errors"}
  ELSE IF IsGraphql(f.kind) /\ f.pc \in {"dstList", "srcList"}
  THEN {"ok", "fail", "errors"}
  ELSE IF IsGraphql(f.kind) /\ f.pc \in {"create", "delete"}
  THEN {"ok", "fail", "userErrors"}
  ELSE {"ok", "fail"}

\* the destination walk of a driver
AfterDestinationList(g, o) ==
  LET page == Page(DestinationRecords(g.kind), g.page)
      more == HasNext(DestinationRecords(g.kind), g.page)
  IN CASE g.kind = "menu" ->
            \* one query, first: 250; a response without data.menus is passed over
            IF o = "fail" THEN Reject(g)
            ELSE IssueSourceList(
                   IF o = "ok"
                   THEN [g EXCEPT !.index = IndexPage(g.index, g.kind, page)]
                   ELSE g, 1)
       [] g.kind = "metafield" ->
            IF o # "ok" THEN Reject(g)
            ELSE LET h == [g EXCEPT !.found = @ \o page]
                 IN IF more THEN IssueDestinationList(h, g.page + 1)
                    ELSE NextItem([h EXCEPT !.items = h.acc, !.i = 0])
       [] OTHER ->
            IF o # "ok" THEN Reject(g)
            ELSE LET h == [g EXCEPT !.index = IndexPage(g.index, g.kind, page)]
                 IN IF more THEN IssueDestinationList(h, g.page + 1)
                    ELSE IssueSourceList(h, 1)

\* the source walk of a driver
AfterSourceList(g, o) ==
  LET page == Page(SourceRecords(g.kind), g.page)
      more == HasNext(SourceRecords(g.kind), g.page)
  IN CASE g.kind = "menu" ->
            IF o = "fail" THEN Reject(g)
            ELSE IF o = "errors" THEN Done(g)
            ELSE NextItem([g EXCEPT !.items = page, !.i = 0])
       [] g.kind = "metafield" ->
            IF o # "ok" THEN Reject(g)
            ELSE LET h == [g EXCEPT !.acc = @ \o page]
                 IN IF more THEN IssueSourceList(h, g.page + 1)
                    ELSE IssueDestinationList(h, 1)
       [] OTHER ->
            IF o # "ok" THEN Reject(g)
            ELSE NextItem([g EXCEPT !.items = page, !.i = 0])

\* migrateCustomCollections before its own destination walk: the source and
\* the destination products, the product map, the destination smart collections
AfterProductMapList(g, o) ==
  IF o # "ok" THEN Reject(g)
  ELSE CASE g.pc = "cSrcProducts" ->
              LET h == [g EXCEPT !.sprods = @ \o Page(SourceRecords("product"), g.page)]
              IN IF HasNext(SourceRecords("product"), g.page)
                 THEN Issue([h EXCEPT !.page = @ + 1], "cSrcProducts",
                            Call("src", "list", "product", 0, g.page + 1))
                 ELSE Issue([h EXCEPT !.page = 1], "cDstProducts",
                            Call("dst", "list", "product", 0, 1))
         [] g.pc = "cDstProducts" ->
              LET h == [g EXCEPT !.dprods = @ \o Page(DestinationRecords("product"), g.page)]
              IN IF HasNext(DestinationRecords("product"), g.page)
                 THEN Issue([h EXCEPT !.page = @ + 1], "cDstProducts",
                            Call("dst", "list", "product", 0, g.page + 1))
                 ELSE Issue([h EXCEPT !.page = 1, !.pmap = ProductMap(h.sprods, h.dprods)],
                            "cDstSmart", Call("dst", "list", "smart", 0, 1))
         [] OTHER ->
              LET h == [g EXCEPT !.index = IndexPage(g.index, "smart",
                                    Page(DestinationRecords("smart"), g.page))]
              IN IF HasNext(DestinationRecords("smart"), g.page)
                 THEN Issue([h EXCEPT !.page = @ + 1], "cDstSmart",
                            Call("dst", "list", "smart", 0, g.page + 1))
                 ELSE IssueDestinationList(h, 1)

\* variant: a delete whose userErrors are thrown like those of a create
AfterDeleteRaisingUserErrors(g, o) == IF o = "ok" THEN SkipOrMigrate(g) ELSE Reject(g)

\* variant: a delete whose failure is swallowed
AfterDeleteIgnoringFailure(g, o) == SkipOrMigrate(g)

\* the delete of the indexed destination entity: _deleteFile and _deleteMenu
\* only log userErrors
AfterDelete(g, o) ==
  IF o = "ok" \/ o = "userErrors" THEN SkipOrMigrate(g) ELSE Reject(g)

\* the metafields of one page of source.metafield.list: each names its owner,
\* the source entity
Listed(page, kind, id) ==
  [k \in 1..Len(page) |->
     [id |-> page[k].id, namespace |-> page[k].namespace, key |-> page[k].key,
      value |-> page[k].value, owner_resource |-> OwnerResource(kind),
      owner_id |-> id]]

\* _getMetafields, then the entity's create call (for a custom collection the
\* listing of its products comes first)
AfterGetMetafields(g, o) ==
  IF o # "ok" THEN ItemFail(g)
  ELSE LET h == [g EXCEPT !.mfs = @ \o Listed(Page(Item(g).metafields, g.mp),
                                               g.kind, Item(g).id)]
       IN IF HasNext(Item(g).metafields, g.mp)
          THEN Issue([h EXCEPT !.mp = @ + 1], "getMf",
                     Call("src", "list", "metafield", Item(g).id, g.mp + 1))
          ELSE IF g.kind = "custom"
          THEN Issue([h EXCEPT !.mp = 1], "members",
                     Call("src", "list", "collectionProducts", Item(g).id, 1))
          ELSE Issue(h, "create", CreateCall(h))

AfterMembers(g, o) ==
  IF o # "ok" THEN ItemFail(g)
  ELSE LET h == [g EXCEPT !.members = @ \o Page(Item(g).members, g.mp)]
       IN IF HasNext(Item(g).members, g.mp)
          THEN Issue([h EXCEPT !.mp = @ + 1], "members",
                     Call("src", "list", "collectionProducts", Item(g).id, g.mp + 1))
          ELSE Issue(h, "create", CreateCall(h))

\* the userErrors of a mutation response that reports a validation failure
UserErrors == <<[message |-> "first"], [message |-> "second"]>>

\* the message of the error a create throws: userErrors[0].message, or the
\* client's own error when the call rejects
Message(o) == IF o = "userErrors" THEN UserErrors[1].message ELSE "rejection"

\* the entity exists: its metafields or images follow
AfterCreate(g, o) ==
  IF o # "ok" THEN ItemFail([g EXCEPT !.thrown = Message(o)])
  ELSE LET h == [g EXCEPT !.newId = NewId(Item(g)), !.j = 0]
       IN CASE g.kind \in {"page", "blog", "smart", "custom", "article"} -> NextMetafield(h)
            [] g.kind = "product" -> NextImage(h)
            [] OTHER -> NextItem(h)

AfterCreateMetafield(g, o) == IF o = "ok" THEN NextMetafield(g) ELSE ItemFail(g)

\* variant: an image create that is not retried
AfterCreateImageOnce(g, o) == IF o = "ok" THEN NextImage(g) ELSE ItemFail(g)

\* try { create image } catch (e) { create image }
AfterCreateImage(g, o) ==
  IF o = "ok" THEN NextImage(g)
  ELSE IF g.pc = "imgCreate" THEN Issue(g, "imgRetry", ImageCall(g))
  ELSE ItemFail(g)

\* frame f after its awaited call came back with outcome o
After(f, o) ==
  LET g == Settle(f, o)
  IN CASE f.pc = "dstList" -> AfterDestinationList(g, o)
       [] f.pc = "srcList" -> AfterSourceList(g, o)
       [] f.pc \in {"cSrcProducts", "cDstProducts", "cDstSmart"} -> AfterProductMapList(g, o)
       [] f.pc = "delete" -> AfterDelete(g, o)
       [] f.pc = "getMf" -> AfterGetMetafields(g, o)
       [] f.pc = "members" -> AfterMembers(g, o)
       [] f.pc = "create" -> AfterCreate(g, o)
       [] f.pc = "mfCreate" -> AfterCreateMetafield(g, o)
       [] f.pc \in {"imgCreate", "imgRetry"} -> AfterCreateImage(g, o)

\* a driver method called with (deleteFirst, skipExisting), up to its first await
Enter(kind, del, skip, caller) ==
  LET f == [Idle EXCEPT !.caller = caller, !.kind = kind, !.del = del, !.skip = skip]
  IN CASE kind = "custom" ->
            Issue(f, "cSrcProducts", Call("src", "list", "product", 0, 1))
       [] kind = "metafield" -> IssueSourceList(f, 1)
       [] kind = "article" -> Issue(f, "aSrcBlogs", Call("src", "list", "blog", 0, 1))
       [] OTHER -> IssueDestinationList(f, 1)

----------------------------------------------------------------------------
(* The entry script *)

\* the types the script can run next, by its flags, after the driver of `kind`
\* (Null: after the connectivity check); "none": no later type is selected.
\* --collections runs the smart and then the custom collections.
NextChoices(kind) ==
  IF kind = "smart" THEN {"custom"}
  ELSE {k \in Kinds \ {"custom"} : kind = Null \/ Rank(k) > Rank(kind)} \cup {"none"}

\* whether the script's code runs on when frame f settles
Continues(p, f) ==
  p = "main" /\ f.caller = "start" /\ f.pc \in {"connected", "resolved", "rejected"}

\* the script after the awaited driver settled: the next selected driver is
\* called with its --delete-* flag; a rejection lands in catch (e), which logs.
\* `unrun` notes the next selected type that the script does not run.
Continue(f, nxt, del) ==
  IF f.pc = "rejected" THEN [f EXCEPT !.pc = "end", !.unrun = nxt]
  ELSE IF nxt = "none" THEN [f EXCEPT !.pc = "end"]
  ELSE Enter(nxt, del, TRUE, "start")

\* variant: a script that carries on after a failed connectivity check
AfterConnectRegardless(f, o) ==
  LET g == Settle(f, o)
  IN IF f.pc = "testSrc" THEN Issue(g, "testDst", Call("dst", "query", "shop", 0, 0))
     ELSE [g EXCEPT !.pc = "connected"]

\* testConnection and the script's handling of its failure (process.exit)
AfterConnect(f, o) ==
  LET g == Settle(f, o)
  IN IF o # "ok" THEN [g EXCEPT !.pc = "exit"]
     ELSE IF f.pc = "testSrc" THEN Issue(g, "testDst", Call("dst", "query", "shop", 0, 0))
     ELSE [g EXCEPT !.pc = "connected"]

\* variant: migrateArticles awaiting the iteration over the matching blogs
AfterBlogsAwaitingIteration(f, o) ==
  LET g == Settle(f, o)
  IN IF o # "ok" THEN Reject(g)
     ELSE IF f.pc = "aSrcBlogs"
     THEN Issue([g EXCEPT !.blogs = Page(SourceRecords("blog"), 1)], "aDstBlogs",
                Call("dst", "list", "blog", 0, 1))
     ELSE [g EXCEPT !.pc = "aIteration"]

\* migrateArticles: both blog lists (one page each), then the iteration over
\* the matching blogs is started and not awaited
AfterBlogs(f, o) ==
  LET g == Settle(f, o)
  IN IF o # "ok" THEN Reject(g)
     ELSE IF f.pc = "aSrcBlogs"
     THEN Issue([g EXCEPT !.blogs = Page(SourceRecords("blog"), 1)], "aDstBlogs",
                Call("dst", "list", "blog", 0, 1))
     ELSE [g EXCEPT !.pc = "resolved"]

\* the un-awaited asyncForEach over the matching blogs, up to its first await
Spawn(f) ==
  LET dblogs == Page(DestinationRecords("blog"), 1)
      matching == SelectSeq(f.blogs, LAMBDA s : \E n \in 1..Len(dblogs) : dblogs[n].key = s.key)
  IN NextBlog([Idle EXCEPT !.caller = "task", !.kind = "article", !.del = f.del,
                           !.skip = f.skip, !.save = f.save, !.blogs = matching,
                           !.dblogs = dblogs])

\* One turn of the event loop ends: coroutine p is in frame nf and the task in
\* frame t.  The script's continuation, when there is one, runs in the same
\* turn.  A rejection of the task is an unhandled rejection, which ends the
\* process or is only warned about, depending on the Node version.
Turn(p, nf, t) ==
  \E nxt \in (IF Continues(p, nf) THEN NextChoices(nf.kind) ELSE {"none"}),
     del \in (IF Continues(p, nf) /\ nf.kind # "smart" THEN BOOLEAN ELSE {nf.del}),
     crash \in (IF p = "task" /\ nf.pc = "rejected" THEN BOOLEAN ELSE {FALSE}) :
    LET m0 == IF p = "main" THEN nf ELSE fr.main
        m1 == IF Continues(p, nf) THEN Continue(m0, nxt, del)
              ELSE IF crash /\ Awaiting(m0) THEN [m0 EXCEPT !.pc = "exit"]
              ELSE m0
        t0 == IF p = "task" THEN nf ELSE t
        t1 == IF m1.pc = "exit" /\ Awaiting(t0) THEN [t0 EXCEPT !.pc = "exit"] ELSE t0
        \* the types that issued a call in this turn, in the order of the calls
        first == IF p = "main" /\ Awaiting(nf) /\ nf.kind # Null THEN <<nf.kind>>
                 ELSE IF Awaiting(t0) /\ (p = "task" \/ ~Awaiting(fr.task)) THEN <<"article">>
                 ELSE <<>>
        then == IF Continues(p, nf) /\ Awaiting(m1) THEN <<m1.kind>> ELSE <<>>
        issued == first \o then
    IN /\ fr' = [main |-> m1, task |-> t1]
       /\ hi' = IF issued = <<>> THEN hi
                ELSE Max(hi, Max(Rank(issued[1]), Rank(Last(issued))))
       /\ last' = IF issued = <<>> THEN last ELSE Last(issued)

\* the code that runs when the call frame f awaits comes back with outcome o
Resume(f, o) ==
  IF f.pc \in {"testSrc", "testDst"} THEN AfterConnect(f, o) ELSE After(f, o)

\* the response of the call that coroutine p awaits arrives
Respond(p, pcs, t) ==
  /\ fr[p].pc \in pcs
  /\ \E o \in Outcomes(fr[p]) :
       /\ o = "ok" \/ failures < MaxFailures
       /\ failures' = IF o = "ok" THEN failures ELSE failures + 1
       /\ Turn(p, Resume(fr[p], o), t)
  /\ UNCHANGED <<src, dst>>

Coroutines == {"main", "task"}

Connect == Respond("main", {"testSrc", "testDst"}, fr.task)

ListBlogs ==
  /\ fr.main.pc \in {"aSrcBlogs", "aDstBlogs"}
  /\ \E o \in Outcomes(fr.main) :
       /\ o = "ok" \/ failures < MaxFailures
       /\ failures' = IF o = "ok" THEN failures ELSE failures + 1
       /\ Turn("main", AfterBlogs(fr.main, o),
               IF o = "ok" /\ fr.main.pc = "aDstBlogs" THEN Spawn(fr.main) ELSE fr.task)
  /\ UNCHANGED <<src, dst>>

ListForProductMap == Respond("main", {"cSrcProducts", "cDstProducts"}, fr.task)

ListDestination == \E p \in Coroutines : Respond(p, {"dstList", "cDstSmart"}, fr.task)

ListSource == \E p \in Coroutines : Respond(p, {"srcList"}, fr.task)

Delete == \E p \in Coroutines : Respond(p, {"delete"}, fr.task)

GetMetafields == \E p \in Coroutines : Respond(p, {"getMf"}, fr.task)

ListMembers == Respond("main", {"members"}, fr.task)

Create == \E p \in Coroutines : Respond(p, {"create"}, fr.task)

CreateMetafield == \E p \in Coroutines : Respond(p, {"mfCreate"}, fr.task)

CreateImage == Respond("main", {"imgCreate", "imgRetry"}, fr.task)

DriverNext ==
  \/ ListBlogs
  \/ ListForProductMap
  \/ ListDestination
  \/ ListSource
  \/ Delete
  \/ GetMetafields
  \/ ListMembers
  \/ Create
  \/ CreateMetafield
  \/ CreateImage

----------------------------------------------------------------------------
(* The whole program: the script run with any flags *)

Init ==
  /\ src \in SourceChoices(MaxAll)
  /\ dst \in DestinationChoices(MaxAll)
  /\ fr = [main |-> Issue([Idle EXCEPT !.caller = "start"], "testSrc",
                          Call("src", "query", "shop", 0, 0)),
           task |-> Idle]
  /\ failures = 0
  /\ hi = 0
  /\ last = Null

Next == Connect \/ DriverNext

Spec == Init /\ [][Next]_vars

(* One driver method called with any arguments *)

DriverInit ==
  /\ src \in SourceChoices(MaxSrc)
  /\ dst \in DestinationChoices(MaxDst)
  /\ \E kind \in Kinds, del \in BOOLEAN, skip \in BOOLEAN :
       fr = [main |-> Enter(kind, del, skip, "direct"), task |-> Idle]
          /\ hi = Rank(kind)
          /\ last = kind
  /\ failures = 0

DriverSpec == DriverInit /\ [][DriverNext]_vars

(* One driver method called a second time, once its first run under the    *)
(* default policy has returned with every call answered                     *)

\* the drivers that are run again
RerunKinds == {"page", "blog", "product", "smart", "custom", "metafield", "menu"}

\* the entities that the create calls of frame f have made: each keeps the
\* natural key of its source record and is listed after the entities that
\* were there before
Created(f) ==
  LET made == SelectSeq(f.log, LAMBDA c : c.store = "dst" /\ c.op = "create"
                                            /\ c.res = f.kind /\ c.out = "ok")
  IN [n \in 1..Len(made) |->
        [place |-> 0, key |-> SourceRecord(made[n].rec).key,
         namespace |-> SourceRecord(made[n].rec).namespace,
         of |-> f.kind, newId |-> NewId(SourceRecord(made[n].rec))]]

\* the second run starts: it lists the destination anew
Rerun ==
  /\ fr.main.caller = "direct" /\ fr.main.pc = "resolved"
  /\ fr.main.kind \in RerunKinds
  /\ fr.main.skip /\ ~fr.main.del
  /\ failures = 0
  /\ dst' = dst \o Created(fr.main)
  /\ fr' = [fr EXCEPT !.main = Enter(fr.main.kind, FALSE, TRUE, "again")]
  /\ UNCHANGED <<src, failures, hi, last>>

RerunNext == DriverNext \/ Rerun

RerunSpec == DriverInit /\ [][RerunNext]_vars

(* One driver method called on a Migrator made without saveData (fr.main)  *)
(* and on one made with it (fr.task), the stores and the arguments the     *)
(* same, every call of the one answered as the same call of the other      *)

\* the drivers that do all their work in the coroutine that is awaited
SaveKinds == Kinds \ {"article"}

SaveInit ==
  /\ src \in SourceChoices(MaxSrc)
  /\ dst \in DestinationChoices(MaxDst)
  /\ \E kind \in SaveKinds, del \in BOOLEAN, skip \in BOOLEAN :
       fr = [main |-> Enter(kind, del, skip, "direct"),
             task |-> [Enter(kind, del, skip, "direct") EXCEPT !.save = TRUE]]
          /\ hi = Rank(kind)
          /\ last = kind
  /\ failures = 0

\* the response of the call that the run without saveData awaits arrives, and
\* the run with saveData, where it awaits the same call, gets the same
SaveRespond(pcs) ==
  /\ fr.main.pc \in pcs
  /\ \E o \in Outcomes(fr.main) :
       /\ o = "ok" \/ failures < MaxFailures
       /\ failures' = IF o = "ok" THEN failures ELSE failures + 1
       /\ fr' = [main |-> Resume(fr.main, o),
                 task |-> IF Awaiting(fr.task) /\ Last(fr.task.log) = Last(fr.main.log)
                          THEN Resume(fr.task, o) ELSE fr.task]
  /\ UNCHANGED <<src, dst, hi, last>>

SaveList ==
  SaveRespond({"dstList", "srcList", "cSrcProducts", "cDstProducts", "cDstSmart"})

SaveDelete == SaveRespond({"delete"})

SaveMigrate ==
  SaveRespond({"getMf", "members", "create", "mfCreate", "imgCreate", "imgRetry"})

SaveNext == SaveList \/ SaveDelete \/ SaveMigrate

SaveSpec == SaveInit /\ [][SaveNext]_vars

----------------------------------------------------------------------------
(* Properties *)

\* the positions in f's log of the calls made for source record r (of the
\* blog at hand, in the article task)
CallsFor(f, r) ==
  {n \in 1..Len(f.log) : f.log[n].rec = r.id /\ f.log[n].blog = f.b}

DeletesFor(f, r) ==
  {n \in CallsFor(f, r) : f.log[n].store = "dst" /\ f.log[n].op = "delete"}

\* the create calls of the entity itself (not of its metafields or images)
CreatesFor(f, r) ==
  {n \in CallsFor(f, r) :
     f.log[n].store = "dst" /\ f.log[n].op = "create" /\ f.log[n].res = f.kind}

\* _migrateX was called for r: its first call is the metafield listing or,
\* where there is none, the create call
MigrateCallsFor(f, r) ==
  {n \in CallsFor(f, r) : f.log[n].op # "delete"}

\* the source records the per-item callback has run for, of the blog at hand
SeenNow(f) == {k \in 1..Len(f.seen) : f.seen[k].blog = f.b}

\* a destination record of the kind has the natural key of source record r
Matches(kind, r) ==
  \E n \in 1..Len(DestinationRecords(kind)) :
    NaturalKey(kind, DestinationRecords(kind)[n]) = NaturalKey(kind, r)

Completed(c) == c.out \in {"ok", "userErrors"}

\* C1: with skipExisting=true and deleteFirst=false, no create and no delete
\* call (nor a metafield or image call) is issued for a source record whose
\* natural key a destination record has (page, blog, article, product, smart
\* and custom collection, shop metafield, menu)
C1_ExistingLeftAlone ==
  \A p \in Coroutines : LET f == fr[p] IN
    (f.kind \in Kinds \ {"file"} /\ f.skip /\ ~f.del) =>
      \A n \in 1..Len(f.log) :
        (f.log[n].rec # 0 /\ f.log[n].store = "dst") =>
          ~Matches(f.kind, SourceRecord(f.log[n].rec))

\* C2 as stated: when a run with deleteFirst=true is over, every natural key
\* of the index that occurs among the source records (here: those the driver
\* has taken up) has had exactly one delete call, on the indexed id, and
\* exactly one create call, the delete completing before the create is issued
C2_ExactlyOneDeleteThenCreate ==
  \A p \in Coroutines : LET f == fr[p] IN
    (f.del /\ f.pc \in {"resolved", "rejected"}) =>
      \A k \in SeenNow(f) :
        LET r == SourceRecord(f.seen[k].rec)
        IN IndexedId(f, r) # 0 =>
             /\ Cardinality(DeletesFor(f, r)) = 1
             /\ Cardinality(CreatesFor(f, r)) = 1
             /\ \A d \in DeletesFor(f, r), c \in CreatesFor(f, r) :
                  d < c /\ f.log[d].arg = IndexedId(f, r)

\* C2 amended: with deleteFirst=true, for a source record the driver
\* processes whose natural key is in the index, at most one delete call (on
\* the indexed id) and at most one create call are issued, a create only
\* after the delete has completed without rejecting; both are issued exactly
\* once when no store call of the run fails
C2_DeleteBeforeCreate ==
  \A p \in Coroutines : LET f == fr[p] IN
    f.del =>
      \A k \in SeenNow(f) :
        LET r == SourceRecord(f.seen[k].rec)
        IN IndexedId(f, r) # 0 =>
             /\ Cardinality(DeletesFor(f, r)) <= 1
             /\ Cardinality(CreatesFor(f, r)) <= 1
             /\ \A d \in DeletesFor(f, r) : f.log[d].arg = IndexedId(f, r)
             /\ \A c \in CreatesFor(f, r) :
                  \E d \in DeletesFor(f, r) : d < c /\ Completed(f.log[d])
             /\ (failures = 0 /\ f.pc = "resolved") =>
                  /\ Cardinality(DeletesFor(f, r)) = 1
                  /\ Cardinality(CreatesFor(f, r)) = 1

C2_Witness ==
  \E p \in Coroutines : LET f == fr[p] IN
    /\ f.del /\ f.pc = "resolved" /\ failures = 0
    /\ \E k \in SeenNow(f) :
         LET r == SourceRecord(f.seen[k].rec)
         IN IndexedId(f, r) # 0 /\ DeletesFor(f, r) # {} /\ CreatesFor(f, r) # {}

\* the decision function of the conflict policy
decide(present, deleteFirst, skipExisting) ==
  IF ~present THEN "CREATE"
  ELSE IF deleteFirst THEN "REPLACE"
  ELSE IF skipExisting THEN "SKIP"
  ELSE "CREATE"

\* C3: for every source record with a natural key and every combination of
\* (key in the index, deleteFirst, skipExisting) the branch a driver takes is
\* decide's: CREATE calls the transform and issues no delete; SKIP issues no
\* call at all; REPLACE issues one delete, on the indexed id, and calls the
\* transform once the delete has come back
C3_DriverTakesDecision ==
  \A p \in Coroutines : LET f == fr[p] IN
    \A k \in SeenNow(f) :
      LET s == f.seen[k]
          r == SourceRecord(s.rec)
      IN s.action # "NOURL" =>
           /\ s.action = decide(IndexedId(f, r) # 0, f.del, f.skip)
           /\ s.action = "CREATE" =>
                DeletesFor(f, r) = {} /\ MigrateCallsFor(f, r) # {}
           /\ s.action = "SKIP" => CallsFor(f, r) = {}
           /\ s.action = "REPLACE" =>
                /\ Cardinality(DeletesFor(f, r)) = 1
                /\ \A d \in DeletesFor(f, r) :
                     /\ f.log[d].arg = IndexedId(f, r)
                     /\ \A c \in MigrateCallsFor(f, r) : d < c
                     /\ f.log[d].out = "pending" => MigrateCallsFor(f, r) = {}
                     /\ Completed(f.log[d]) => MigrateCallsFor(f, r) # {}

\* a key of the index with both flags false: the create is attempted anyway
C3_Witness ==
  \E p \in Coroutines : LET f == fr[p] IN
    /\ ~f.del /\ ~f.skip
    /\ \E k \in SeenNow(f) :
         LET r == SourceRecord(f.seen[k].rec)
         IN IndexedId(f, r) # 0 /\ CreatesFor(f, r) # {} /\ DeletesFor(f, r) = {}

\* C4: when the driver of one type rejects, the drivers of all later
\* selected types still run: the script never ends with a selected type unrun
C4_LaterTypesStillRun == fr.main.pc = "end" => fr.main.unrun = "none"

\* C5: the types run in the fixed order and each driver runs to completion
\* before the next starts: every call is issued on behalf of the latest type
\* that has issued any call
C5_OneTypeAtATime == last # Null => Rank(last) = hi

\* C6: no metafield whose namespace starts with app-- is sent to the
\* destination, in a metafield create call or in a creation payload
C6_NoAppMetafieldSent ==
  \A p \in Coroutines : LET f == fr[p] IN
    \A n \in 1..Len(f.log) :
      LET c == f.log[n]
      IN (c.store = "dst" /\ c.op = "create") =>
           /\ c.res = "metafield" => NotAppOwned(c.arg)
           /\ c.res = "product" =>
                \A m \in 1..Len(c.arg.metafields) : NotAppOwned(c.arg.metafields[m])

\* the metafield create calls of the entity made from source record r
MetafieldCreatesFor(f, r) ==
  {n \in CallsFor(f, r) :
     f.log[n].store = "dst" /\ f.log[n].op = "create" /\ f.log[n].res = "metafield"
       /\ f.kind # "metafield"}

\* C7: when the create call of one of an entity's metafields fails, the create
\* calls of the entity's remaining metafields are still issued and the driver
\* is not aborted
C7_MetafieldFailureIsolated ==
  \A p \in Coroutines : LET f == fr[p] IN
    \A k \in SeenNow(f) :
      LET r == SourceRecord(f.seen[k].rec)
      IN (\E n \in MetafieldCreatesFor(f, r) : f.log[n].out = "fail") =>
           /\ f.pc # "rejected"
           /\ Cardinality(MetafieldCreatesFor(f, r)) = Len(r.metafields)

\* a call inside the transform of a record: the metafield and member
\* listings, the create calls of the entity, its metafields and its images
InTransform(c) == c.rec # 0 /\ c.op # "delete"

\* the call at place n of f's log repeats the image create call before it
IsRetry(f, n) ==
  /\ n > 1
  /\ f.log[n - 1].res = "productImage"
  /\ f.log[n - 1].rec = f.log[n].rec /\ f.log[n - 1].arg = f.log[n].arg

\* C8: in the product and the two collection drivers a failure inside the
\* transform of one record is caught: it does not reject the driver, the next
\* record of the page is taken up at once, and a driver that returns has run
\* for every source record
C8_ItemFailureContained ==
  \A p \in Coroutines : LET f == fr[p] IN
    f.kind \in {"product", "smart", "custom"} =>
      /\ f.pc = "rejected" => ~InTransform(Last(f.log))
      /\ \A n \in 1..Len(f.log) :
           (InTransform(f.log[n]) /\ f.log[n].out = "fail"
              /\ (f.log[n].res = "productImage" => f.pc # "imgRetry" /\ IsRetry(f, n))) =>
             \/ n < Len(f.log) /\ f.log[n + 1].rec # f.log[n].rec
             \/ n = Len(f.log) /\ f.pc = "resolved"
      /\ f.pc = "resolved" =>
           [k \in 1..Len(f.seen) |-> f.seen[k].rec] =
             [k \in 1..Len(SourceRecords(f.kind)) |-> SourceRecords(f.kind)[k].id]

\* a record whose create failed, followed by the calls of the next record
C8_Witness ==
  \E p \in Coroutines : LET f == fr[p] IN
    /\ f.kind \in {"product", "smart", "custom"}
    /\ \E n \in 1..Len(f.log) :
         /\ f.log[n].op = "create" /\ f.log[n].out = "fail"
         /\ \E m \in (n + 1)..Len(f.log) :
              f.log[m].rec > f.log[n].rec /\ f.log[m].op = "create"

\* C9: when the connectivity check fails for either store the process exits
\* and no driver starts: no call other than the check is ever issued
C9_FailedCheckExits ==
  (\E n \in 1..Len(fr.main.log) :
     fr.main.log[n].res = "shop" /\ fr.main.log[n].out \notin {"ok", "pending"}) =>
    /\ fr.main.pc = "exit"
    /\ fr.task.pc = "idle"
    /\ hi = 0 /\ last = Null
    /\ \A n \in 1..Len(fr.main.log) : fr.main.log[n].res = "shop"
    /\ fr.main.log[Len(fr.main.log)].out # "ok"

C9_Witness ==
  /\ fr.main.pc = "exit"
  /\ Len(fr.main.log) = 2
  /\ fr.main.log[2].store = "dst" /\ fr.main.log[2].out = "errors"

\* the image create calls for image `im` of source record r
ImageCallsFor(f, r, im) ==
  {n \in CallsFor(f, r) : f.log[n].res = "productImage" /\ f.log[n].arg.id = im.id}

\* C10: an image create call is issued at most twice per image, the second
\* exactly when the first has failed, right after it; when the second fails
\* too, no further call is made for the product (no third attempt, no other
\* image) and the error leaves the transform
C10_ImageRetriedOnce ==
  \A p \in Coroutines : LET f == fr[p] IN
    \A k \in SeenNow(f) :
      LET r == SourceRecord(f.seen[k].rec)
      IN \A j \in 1..Len(r.images) :
           LET tries == ImageCallsFor(f, r, r.images[j])
           IN /\ Cardinality(tries) <= 2
              /\ \A n \in tries :
                   LET again == {m \in tries : m > n}
                       first == \A m \in tries : m >= n
                   IN /\ (first /\ f.log[n].out = "fail") => again = {n + 1}
                      /\ (first /\ f.log[n].out # "fail") => again = {}
                      /\ (~first /\ f.log[n].out = "fail") =>
                           \A m \in CallsFor(f, r) : m <= n

\* both attempts for an image failed and the driver went on to the next product
C10_Witness ==
  \E p \in Coroutines : LET f == fr[p] IN
    \E n \in 1..Len(f.log) :
      /\ n + 2 <= Len(f.log)
      /\ f.log[n].res = "productImage" /\ f.log[n].out = "fail"
      /\ f.log[n + 1].res = "productImage" /\ f.log[n + 1].out = "fail"
      /\ f.log[n + 2].rec # f.log[n].rec

\* C11: in the file driver with skipExisting=true and deleteFirst=false no
\* call is issued on the destination for a source file whose resolved URL is
\* the resolved URL of a destination file
C11_FileWithSameUrlSkipped ==
  \A p \in Coroutines : LET f == fr[p] IN
    (f.kind = "file" /\ f.skip /\ ~f.del) =>
      \A n \in 1..Len(f.log) :
        (f.log[n].rec # 0 /\ f.log[n].store = "dst") =>
          LET url == FileUrl(SourceRecord(f.log[n].rec))
          IN ~(url # Null /\ \E d \in 1..Len(DestinationRecords("file")) :
                               FileUrl(DestinationRecords("file")[d]) = url)

\* C12: a source file without a resolved URL gets no call at all (no
\* fileCreate, no fileDelete) and raises nothing: the file after it is taken
\* up at once or, at the end of a page, the next page is listed, and after
\* the last file the driver returns
C12_FileWithoutUrlPassedOver ==
  \A p \in Coroutines : LET f == fr[p] IN
    f.kind = "file" =>
      \A k \in 1..Len(f.seen) :
        LET r == SourceRecord(f.seen[k].rec)
        IN FileUrl(r) = Null =>
             /\ f.seen[k].action = "NOURL"
             /\ CallsFor(f, r) = {}
             /\ k = Len(f.seen) =>
                  \/ f.pc = "resolved" /\ r.id = Len(SourceRecords("file"))
                  \/ /\ r.id < Len(SourceRecords("file"))
                     /\ Last(f.log).store = "src" /\ Last(f.log).op = "list"
                     /\ Last(f.log).arg = f.page
                     /\ f.pc = "srcList" \/ (f.pc = "rejected" /\ ~Completed(Last(f.log)))

\* a file without URL passed over and the file after it created
C12_Witness ==
  \E p \in Coroutines : LET f == fr[p] IN
    /\ f.kind = "file"
    /\ \E k \in 1..Len(f.seen) :
         /\ f.seen[k].action = "NOURL"
         /\ k < Len(f.seen)
         /\ CreatesFor(f, SourceRecord(f.seen[k + 1].rec)) # {}

\* the destination product that has the handle of the source product with
\* id m, 0 when there is none
Counterpart(m) ==
  LET same == {d \in 1..Len(DestinationRecords("product")) :
                 \E s \in 1..Len(SourceRecords("product")) :
                   /\ SourceRecords("product")[s].id = m
                   /\ SourceRecords("product")[s].key = DestinationRecords("product")[d].key}
  IN IF same = {} THEN 0 ELSE DestinationRecords("product")[CHOOSE d \in same : TRUE].id

\* the members that have a counterpart, as the ids of their counterparts
RECURSIVE Membership(_)
Membership(members) ==
  IF members = <<>> THEN <<>>
  ELSE (IF Counterpart(Head(members)) = 0 THEN <<>>
        ELSE <<[product_id |-> Counterpart(Head(members))]>>)
       \o Membership(Tail(members))

\* C13: the collects of a custom collection's creation payload are the
\* destination products that have the handles of its source member products,
\* in the order of the members, members without such a product dropped
C13_CollectsAreMappedMembers ==
  \A p \in Coroutines : LET f == fr[p] IN
    \A n \in 1..Len(f.log) :
      LET c == f.log[n]
      IN (c.op = "create" /\ c.res = "custom") =>
           c.arg.collects = Membership(SourceRecord(c.rec).members)

\* two members, one with and one without a destination counterpart
C13_Witness ==
  \E p \in Coroutines : LET f == fr[p] IN
    \E n \in 1..Len(f.log) :
      /\ f.log[n].op = "create" /\ f.log[n].res = "custom" /\ f.log[n].out = "ok"
      /\ Len(SourceRecords("product")) >= 2
      /\ Counterpart(1) # 0 /\ Counterpart(2) = 0
      /\ f.log[n].arg.collects = <<[product_id |-> Counterpart(1)]>>

\* the id of the created product's variant that has the title of the source
\* variant with id oldId
TitleMate(r, oldId) ==
  LET title == (CHOOSE v \in {r.variants[k] : k \in 1..Len(r.variants)} : v.id = oldId).title
  IN (CHOOSE v \in {NewVariants(r)[k] : k \in 1..Len(r.variants)} : v.title = title).id

\* C14: the variant_ids of an image create call are the ids of the created
\* product's variants that have the titles of the variants the source image
\* names, one for one
C14_VariantIdsRemappedByTitle ==
  \A p \in Coroutines : LET f == fr[p] IN
    \A n \in 1..Len(f.log) :
      LET c == f.log[n]
          r == SourceRecord(c.rec)
      IN c.res = "productImage" =>
           \E j \in 1..Len(r.images) :
             /\ r.images[j].id = c.arg.id
             /\ c.arg.product_id = NewId(r)
             /\ c.arg.variant_ids =
                  [k \in 1..Len(r.images[j].variant_ids) |->
                     TitleMate(r, r.images[j].variant_ids[k])]

\* destination variants 101 'A' and 102 'B': the image of the source variant
\* titled 'B' is created with variant 102
C14_Witness ==
  \E p \in Coroutines : LET f == fr[p] IN
    \E n \in 1..Len(f.log) :
      /\ f.log[n].res = "productImage" /\ f.log[n].out = "ok"
      /\ f.log[n].arg.id = 31 /\ f.log[n].arg.variant_ids = <<102>>

\* C15: when a driver takes its first decision on a source record, every
\* destination entity of the kind that has a natural key is in the index, and
\* the article driver has matched the blogs against every destination blog
C15_IndexTotalAtFirstDecision ==
  \A p \in Coroutines : LET f == fr[p] IN
    /\ SeenNow(f) # {} =>
         \A d \in 1..Len(DestinationRecords(f.kind)) :
           LET node == DestinationRecords(f.kind)[d]
           IN NaturalKey(f.kind, node) # Null => IndexedId(f, node) # 0
    /\ (p = "task" /\ f.pc # "idle") =>
         Len(f.dblogs) = Len(DestinationRecords("blog"))

\* a listing call of the destination walk of a driver
IsDestinationEnumeration(c) == c.store = "dst" /\ c.op = "list"

\* C16: when a call of the destination enumeration fails (rejects, reports
\* errors, or answers without the data) the driver raises an error and issues
\* no further call
C16_FailedEnumerationAborts ==
  \A p \in Coroutines : LET f == fr[p] IN
    \A n \in 1..Len(f.log) :
      (IsDestinationEnumeration(f.log[n]) /\ f.log[n].out \notin {"ok", "pending"}) =>
        f.pc = "rejected" /\ n = Len(f.log)

\* C17: in the page, blog, file and menu drivers a failed create call of the
\* entity rejects the driver at once: it is the driver's last call and the
\* record it was made for is the last one taken up
C17_CreateFailureRejectsDriver ==
  \A p \in Coroutines : LET f == fr[p] IN
    f.kind \in {"page", "blog", "file", "menu"} =>
      \A n \in 1..Len(f.log) :
        (f.log[n].op = "create" /\ f.log[n].res = f.kind
           /\ f.log[n].out \in {"fail", "userErrors"}) =>
          /\ f.pc = "rejected"
          /\ n = Len(f.log)
          /\ Last(f.seen).rec = f.log[n].rec

\* the create for the first of several source records failed
C17_Witness ==
  \E p \in Coroutines : LET f == fr[p] IN
    /\ f.kind \in {"page", "blog", "file", "menu"}
    /\ f.pc = "rejected"
    /\ Last(f.log).op = "create" /\ Last(f.log).res = f.kind
    /\ Last(f.log).rec < Len(SourceRecords(f.kind))

\* C18 as stated: in the shop-metafield driver a failed create call rejects
\* the driver and the remaining source shop metafields are not processed
C18_MetafieldCreateFailureRejects ==
  \A p \in Coroutines : LET f == fr[p] IN
    f.kind = "metafield" =>
      \A n \in 1..Len(f.log) :
        (f.log[n].op = "create" /\ f.log[n].out = "fail") =>
          f.pc = "rejected" /\ n = Len(f.log)

\* C18 amended: in the shop-metafield driver a failed create call is caught
\* in the per-item callback: it never rejects the driver, the next source
\* shop metafield is taken up at once, and a driver that returns has run for
\* every source shop metafield
C18_MetafieldCreateFailureCaught ==
  \A p \in Coroutines : LET f == fr[p] IN
    f.kind = "metafield" =>
      /\ f.pc = "rejected" => Last(f.log).op # "create"
      /\ \A n \in 1..Len(f.log) :
           (f.log[n].op = "create" /\ f.log[n].out = "fail") =>
             \/ f.pc = "resolved" /\ f.log[n].rec = Len(SourceRecords("metafield"))
             \/ /\ f.log[n].rec < Len(SourceRecords("metafield"))
                /\ \E k \in 1..Len(f.seen) : f.seen[k].rec = f.log[n].rec + 1
      /\ f.pc = "resolved" =>
           [k \in 1..Len(f.seen) |-> f.seen[k].rec] =
             [k \in 1..Len(SourceRecords(f.kind)) |-> SourceRecords(f.kind)[k].id]

\* a failed create followed by the create for the next shop metafield
C18_Witness ==
  \E p \in Coroutines : LET f == fr[p] IN
    /\ f.kind = "metafield"
    /\ \E n \in 1..Len(f.log) :
         /\ f.log[n].op = "create" /\ f.log[n].out = "fail"
         /\ n < Len(f.log) /\ f.log[n + 1].op = "create"
         /\ f.log[n + 1].rec = f.log[n].rec + 1

\* C19: whenever article work exists (the iteration over the matching blogs
\* has been started, its calls outstanding, answered or failed) the article
\* driver has already returned to the script with its promise resolved: the
\* script has gone on to a later type or has ended outside its catch, and a
\* failure of the article work changes none of it
C19_ArticleWorkOutlivesDriver ==
  fr.task.pc # "idle" =>
    /\ ~(fr.main.kind = "article" /\ Awaiting(fr.main))
    /\ fr.main.kind # "article" =>
         fr.main.kind \in Kinds /\ Rank(fr.main.kind) > Rank("article")
    /\ fr.main.kind = "article" =>
         /\ fr.main.pc \in {"end", "exit"}
         /\ fr.main.unrun = "none"
         /\ Last(fr.main.log).out = "ok"

\* a later driver awaits its call while an article call is outstanding, and
\* the same with the article work failed
C19_Witness ==
  /\ fr.main.kind \in Kinds
  /\ Rank(fr.main.kind) > Rank("article") /\ Awaiting(fr.main)
  /\ fr.task.pc = "rejected"
  /\ Len(fr.task.log) >= 2
  /\ Last(fr.task.log).out = "fail"

\* a call for one blog lies between two calls for another blog
Interleaved(log) ==
  \E a, b, c \in 1..Len(log) :
    a < b /\ b < c /\ log[a].blog = log[c].blog /\ log[b].blog # log[a].blog

\* C20 as stated, read of a finished run: the article migrations of two
\* matching blogs interleave, a call for one blog being issued between two
\* calls for the other
C20_BlogsInterleave ==
  (fr.task.pc = "resolved" /\ fr.task.b >= 2) => Interleaved(fr.task.log)

\* C20 amended: the article migrations of the matching blogs never
\* interleave: every call for a blog is issued after all calls for the blogs
\* before it
C20_BlogsInSequence ==
  /\ ~Interleaved(fr.task.log)
  /\ \A n \in 2..Len(fr.task.log) : fr.task.log[n - 1].blog <= fr.task.log[n].blog

\* two matching blogs, both with an article created
C20_Witness ==
  /\ fr.task.b = 2
  /\ \E a, b \in 1..Len(fr.task.log) :
       /\ fr.task.log[a].blog = 1 /\ fr.task.log[a].op = "create"
       /\ fr.task.log[b].blog = 2 /\ fr.task.log[b].op = "create"

\* the metafields a call sends to the destination: the argument of a metafield
\* create call, the metafields of a product's creation payload
MetafieldsSent(c) ==
  IF c.store # "dst" \/ c.op # "create" THEN <<>>
  ELSE IF c.res = "metafield" THEN <<c.arg>>
  ELSE IF c.res = "product" THEN c.arg.metafields
  ELSE <<>>

\* C21: for a page, blog, article, smart collection, custom collection and
\* product, a metafield is sent to the destination only after the create call
\* of the owning entity has returned; it carries no source id, its owner_id is
\* the id of the new destination entity and its owner_resource the kind
C21_MetafieldRehomedAfterCreate ==
  \A p \in Coroutines : LET f == fr[p] IN
    f.kind \in {"page", "blog", "article", "smart", "custom", "product"} =>
      \A n \in 1..Len(f.log) :
        \A k \in 1..Len(MetafieldsSent(f.log[n])) :
          LET m == MetafieldsSent(f.log[n])[k]
          IN /\ \E e \in 1..(n - 1) :
                  /\ f.log[e].op = "create" /\ f.log[e].res = f.kind
                  /\ f.log[e].rec = f.log[n].rec /\ f.log[e].blog = f.log[n].blog
                  /\ f.log[e].out = "ok"
             /\ "id" \notin DOMAIN m
             /\ m.owner_id = NewId(SourceRecord(f.log[n].rec))
             /\ m.owner_resource = OwnerResource(f.kind)

\* C22: in the file and the menu driver, userErrors on a create call are
\* raised as an error with the first message: the driver rejects and issues no
\* further call; userErrors on a delete call are only logged: the driver does
\* not reject on them and issues the create call for the same record next
C22_UserErrorsRaisedOnCreateOnly ==
  \A p \in Coroutines : LET f == fr[p] IN
    f.kind \in {"file", "menu"} =>
      \A n \in 1..Len(f.log) :
        /\ (f.log[n].op = "create" /\ f.log[n].out = "userErrors") =>
             /\ f.pc = "rejected" /\ n = Len(f.log)
             /\ f.thrown = UserErrors[1].message
        /\ (f.log[n].op = "delete" /\ f.log[n].out = "userErrors") =>
             /\ n < Len(f.log)
             /\ f.log[n + 1].op = "create" /\ f.log[n + 1].rec = f.log[n].rec
             /\ f.pc = "rejected" => n + 1 < Len(f.log) \/ f.log[n + 1].out # "ok"

\* a menu whose delete reported userErrors was created all the same, and the
\* create of a later menu reported userErrors and rejected the driver
C22_Witness ==
  \E p \in Coroutines : LET f == fr[p] IN
    /\ f.kind = "menu" /\ f.pc = "rejected" /\ f.thrown = "first"
    /\ Last(f.log).op = "create" /\ Last(f.log).out = "userErrors"
    /\ \E n \in 1..(Len(f.log) - 2) :
         /\ f.log[n].op = "delete" /\ f.log[n].out = "userErrors"
         /\ f.log[n + 1].op = "create" /\ f.log[n + 1].out = "ok"

\* C23: the published_at of an article's creation payload is the created_at
\* the source article had when it was listed
C23_PublishedAtIsCreatedAt ==
  \A p \in Coroutines : LET f == fr[p] IN
    \A n \in 1..Len(f.log) :
      (f.log[n].op = "create" /\ f.log[n].res = "article") =>
        f.log[n].arg.published_at = SourceRecord(f.log[n].rec).created_at

\* the metafield's value contains the substring gid://shopify/
HoldsGlobalId(m) == \E k \in 1..Len(m.value.text) : m.value.text[k] = "gid://shopify/"

\* the metafield's namespace starts with app--
AppOwned(m) == m.namespace # <<>> /\ m.namespace[1] = "app--"

\* C24: the metafields of a product's creation payload are exactly the source
\* product's metafields whose namespace does not start with app-- and whose
\* value does not contain gid://shopify/, whatever the type of the value
C24_ProductMetafieldsExact ==
  \A p \in Coroutines : LET f == fr[p] IN
    \A n \in 1..Len(f.log) :
      LET c == f.log[n]
          kept == SelectSeq(SourceRecord(c.rec).metafields,
                            LAMBDA m : ~AppOwned(m) /\ ~HoldsGlobalId(m))
      IN (c.op = "create" /\ c.res = "product") =>
           [k \in 1..Len(c.arg.metafields) |-> c.arg.metafields[k].id] =
             [k \in 1..Len(kept) |-> kept[k].id]

\* C25: when every call succeeds, a second run of the page, blog, product,
\* smart-collection, custom-collection, shop-metafield or menu driver with
\* skipExisting=true and deleteFirst=false issues no create and no delete call
C25_SecondRunIssuesNothing ==
  (fr.main.caller = "again" /\ failures = 0) =>
    \A n \in 1..Len(fr.main.log) :
      fr.main.log[n].store = "dst" => fr.main.log[n].op \notin {"create", "delete"}

\* the destination entity of `kind` with this id has the natural key of
\* source record r
IsCounterpart(kind, id, r) ==
  \E d \in 1..Len(DestinationRecords(kind)) :
    /\ DestinationRecords(kind)[d].id = id
    /\ NaturalKey(kind, DestinationRecords(kind)[d]) = NaturalKey(kind, r)

\* C26: every delete call targets a destination entity of the kind of the
\* driver that has the natural key of the source record at hand (the custom
\* collection driver deletes custom collections only), and a source record is
\* skipped only when a destination entity of its kind has its natural key
C26_DeleteTargetsSameKind ==
  \A p \in Coroutines : LET f == fr[p] IN
    /\ \A n \in 1..Len(f.log) :
         (f.log[n].store = "dst" /\ f.log[n].op = "delete") =>
           IsCounterpart(f.kind, f.log[n].arg, SourceRecord(f.log[n].rec))
    /\ \A k \in SeenNow(f) :
         f.seen[k].action = "SKIP" => Matches(f.kind, SourceRecord(f.seen[k].rec))

\* C27: in the product and the two collection drivers with deleteFirst=true a
\* failed delete call does not reject the driver: the next source record is
\* taken up, and a driver that returns has run for every source record
C27_DeleteFailureContained ==
  \A p \in Coroutines : LET f == fr[p] IN
    (f.kind \in {"product", "smart", "custom"} /\ f.del) =>
      \A n \in 1..Len(f.log) :
        (f.log[n].op = "delete" /\ f.log[n].out = "fail") =>
          /\ f.pc # "rejected"
          /\ f.pc = "resolved" =>
               [k \in 1..Len(f.seen) |-> f.seen[k].rec] =
                 [k \in 1..Len(SourceRecords(f.kind)) |-> SourceRecords(f.kind)[k].id]

\* the create and delete calls of a log, on the destination, in order
Effects(log) ==
  LET calls == SelectSeq(log, LAMBDA c : c.store = "dst" /\ c.op \in {"create", "delete"})
  IN [n \in 1..Len(calls) |->
        [op |-> calls[n].op, res |-> calls[n].res, rec |-> calls[n].rec,
         arg |-> calls[n].arg]]

\* C28: for the same stores and the same arguments the run with saveData
\* issues the create and delete calls of the run without it, and ends as it
\* does
C28_SaveDataWithoutEffect ==
  (fr.main.caller = "direct" /\ fr.task.save) =>
    /\ Effects(fr.task.log) = Effects(fr.main.log)
    /\ fr.task.pc = fr.main.pc

\* C29: the source store is only read: every call on it is a listing or the
\* connectivity query, and every create and delete call is a call on the
\* destination store
C29_SourceOnlyRead ==
  \A p \in Coroutines : LET f == fr[p] IN
    \A n \in 1..Len(f.log) :
      /\ f.log[n].store = "src" => f.log[n].op \in {"list", "query"}
      /\ f.log[n].op \in {"create", "delete"} => f.log[n].store = "dst"

\* a run with a --delete flag that has listed the source, deleted a
\* destination entity and created its replacement
C29_Witness ==
  \E p \in Coroutines : LET f == fr[p] IN
    \E a, b, c \in 1..Len(f.log) :
      /\ a < b /\ b < c
      /\ f.log[a].store = "src" /\ f.log[a].op = "list" /\ f.log[a].out = "ok"
      /\ f.log[b].store = "dst" /\ f.log[b].op = "delete" /\ f.log[b].out = "ok"
      /\ f.log[c].store = "dst" /\ f.log[c].op = "create" /\ f.log[c].out = "ok"
      /\ f.log[c].rec = f.log[b].rec

====
